---- MODULE Spec2Model ----
(***************************************************************************)
(* Model of the static-site engine (src/engine).                           *)
(*                                                                         *)
(* Spec   : the scheduler of process.rs (Processor::render_toplevel,       *)
(*          RenderAllFuture::poll) and the four pipelines it dispatches to *)
(*          (page, image, font, style), over a small site.                 *)
(* SpecRA : the discovery part of RenderAdapter::next of render_adapter.rs *)
(*          (shared pending/finished sets, one new_stack per adapter).     *)
(***************************************************************************)
EXTENDS Integers, Sequences, FiniteSets, TLC

\* ---------------------------------------------------------------- bounds
\* At most MaxDispatch futures are created in one run.
MaxDispatch == 5
\* The headings of a document (SpecSlug) and its blocks (SpecFM).
MaxHeadings == 4
MaxBlocks == 3
MaxTocLen == 4
MaxLevel == 3
MaxUp == 2
MaxNodes == 5

\* ------------------------------------------------------------ work items
\* RenderingInput: the identity is the tag and the payload.
Index == [kind |-> "Index", key |-> "-"]
Keep == [kind |-> "Keep", key |-> "-"]
Page(p) == [kind |-> "Page", key |-> p]
Image(u) == [kind |-> "Image", key |-> u]
Font(u) == [kind |-> "Font", key |-> u]
Style(s) == [kind |-> "Style", key |-> s]

\* config.inputs.index / config.inputs.keep: file stems under the source root.
IndexStem == "index"
KeepStem == "_keep"
\* The source documents of the site (file stems, extension .md).
Stems == {IndexStem, KeepStem, "a"}
ImageUrl == "https://h.test/x.png"
\* The same URL as an author may spell it; Url::parse lower-cases the scheme
\* and the host.
ImageUrlRaw == "HTTPS://H.TEST/x.png"
FontUrl == "https://h.test/f.woff2"
GlobalStyle == "_global"

Items ==
    {Index, Keep, Image(ImageUrl), Font(FontUrl), Style(GlobalStyle)}
        \cup {Page(s) : s \in Stems}

\* ------------------------------------------------- documents and the site
\* The events of a document the adapter acts on: an inline image and an
\* inline link hyperref:<stem>.
Img == [tag |-> "Image", url |-> ImageUrl]
ImgRaw == [tag |-> "Image", url |-> ImageUrlRaw]
Lnk(s) == [tag |-> "Link", url |-> s]

Docs ==
    { <<>>,
      <<Lnk("a"), Img>>,
      <<Lnk("a"), ImgRaw>>,
      <<Lnk(IndexStem)>>,
      <<Lnk("a"), Lnk("a")>> }

\* What the remote stylesheet named by a chunk's @font directive references:
\* <<>> stands for a chunk without directive.
FontDocs == { <<>>, <<FontUrl, FontUrl>> }

\* The Content-Type the image host answers with: WebP bytes are copied to
\* the output as they are, any other format is transcoded.
ContentTypes == {"image/webp", "image/png"}

\* The site: which sources exist, what they hold, the style chunks under
\* chunks_root, whether the prelude file can be read and what the image
\* host serves.  A file that does not exist
\* holds nothing; the keep file is empty or holds references; a.md is left
\* out where nothing links to it (it would never be read); the content type
\* varies only where a document shows the image; the keep file is the one
\* that spells the image URL in upper case.
Sites ==
    { e \in [exists : SUBSET Stems,
             docs : [Stems -> Docs],
             chunks : UNION {[C -> FontDocs] : C \in SUBSET {GlobalStyle}},
             prelude : BOOLEAN,
             content_type : ContentTypes] :
        /\ \A s \in Stems : s \notin e.exists => e.docs[s] = <<>>
        /\ (\A s \in Stems : \A k \in 1..Len(e.docs[s]) :
                 e.docs[s][k].tag # "Image")
              => e.content_type = "image/png"
        /\ e.docs[KeepStem] \in {<<>>, <<Lnk("a"), ImgRaw>>}
        /\ \A s \in Stems \ {KeepStem} : e.docs[s] # <<Lnk("a"), ImgRaw>>
        /\ "a" \in e.exists =>
              \E s \in {IndexStem, KeepStem} :
                 \E k \in 1..Len(e.docs[s]) : e.docs[s][k] = Lnk("a") }

\* sha2::Sha256::digest of the URL text, in lower-case hex.
Sha256Hex(u) ==
    CASE u = ImageUrl ->
           "8c6898a9c19d44987f0d9b0dc09287b6d27f2d95485fbb646c7e11119fb09617"
      [] u = FontUrl ->
           "183aca1aed8f0ed7abcf7031ffee3b3b3a15ac993b4abbf9aabcb4199ad5dadb"

\* The last dot-separated piece of the URL's last path segment.
UrlExt(u) ==
    CASE u = ImageUrl -> "png"
      [] u = FontUrl -> "woff2"

\* The source file a page item reads.
Filename(input) ==
    CASE input = Index -> IndexStem
      [] input = Keep -> KeepStem
      [] input.kind = "Page" -> input.key

\* The output file of an item, relative to the output root.
OutPath(input) ==
    CASE input.kind \in {"Index", "Keep", "Page"} ->
           [dir |-> "", name |-> Filename(input), ext |-> "html"]
      [] input.kind = "Image" ->
           [dir |-> "images", name |-> Sha256Hex(input.key), ext |-> "webp"]
      [] input.kind = "Font" ->
           [dir |-> "fonts", name |-> Sha256Hex(input.key), ext |-> UrlExt(input.key)]
      [] input.kind = "Style" ->
           [dir |-> "css", name |-> input.key, ext |-> "css"]

\* ------------------------------------------------------------- variables
VARIABLES
    site,            \* the sources and the image host
    srcTime,         \* when the sources (documents and chunks) were last saved
    out,             \* the output tree: path -> mtime, for the files present
    out0,            \* history: the output tree when this run started
    now,             \* the clock: the time every write of this run stamps
    run,             \* "first" or "second" invocation
    prev,            \* the result of the first invocation
    force,           \* render_toplevel's argument
    render_stack,    \* Processor.render_stack, front first
    finished,        \* Processor.finished
    futs,            \* RenderAllFuture.futs: <<input, position>> -> how many
    is_last_future,  \* the local of poll
    phase,           \* where render_toplevel is
    result,          \* what render_all returned
    errBy,           \* the input of the future whose error was returned
    failedFirst,     \* history: the input of the first future that failed
    started,         \* history: input -> futures created for it in this run
    okDone,          \* history: inputs of the futures that returned Ok
    written,         \* history: <<input, path>> of every file write of this run
    writes,          \* history: how many files this run created or overwrote
    fetched,         \* history: the inputs this run sent a request for
    errWhy,          \* history: what made the first failed future fail
    emitted,         \* input -> the references its worker put into its output
    \* render_adapter.rs (SpecRA)
    ra_render_stack, \* ProcessorContext.render_stack, a DashSet
    ra_finished,     \* ProcessorContext.finished, a DashSet
    new_stack,       \* input -> ProcessorContext.new_stack of its worker
    ra_pc,           \* input -> where its worker is
    ra_pos,          \* input -> the next event of its document
    ra_new,          \* input -> what the guard of the current event found
    polling,         \* the future being polled, or NoInput
    discoverers,     \* history: input -> the workers whose events named it
    \* render_adapter.rs, frontmatter extraction (SpecFM)
    fm_doc,            \* the events the parser yields for the document
    fm_pos,            \* the next event of the inner iterator
    frontmatter_state, \* FrontmatterParsingState: Ready, Parsing or Done
    fm_buf,            \* the String of Parsing(..): its pieces in order
    frontmatter,       \* RenderAdapter.frontmatter: None or what was parsed
    fm_emitted,        \* the positions of the events next() has returned
    fm_ended,          \* next() has returned None
    fm_open,           \* history: the position of the rule that opened the block
    fm_close,          \* history: the position of the marker that closed it
    fm_parses,         \* history: the results of the calls of parse_from_str
    \* render_adapter.rs, heading slugs (SpecSlug)
    sl_titles,         \* the heading texts setup_header_links comes upon
    sl_pos,            \* the next heading
    slugs_cache,       \* RenderAdapter.slugs_cache
    toc,               \* RenderAdapter.toc: the slugs, in order
    \* render_adapter.rs, table of contents (SpecToc)
    tc_levels,         \* RenderAdapter.toc: the heading levels, in order
    tc_out,            \* the tags render_toc has put out: <ol>, </ol>, <li>
    tc_done,           \* render_toc has returned
    \* process.rs, resolution of a hyperref link (SpecLink)
    lk_filename,       \* ProcessorContext.filename: the document being rendered
    lk_path,           \* the path of the hyperref URL
    lk_files,          \* the markdown files that exist
    lk_result,         \* what the link handling came to
    \* dependency.rs (SpecDag)
    dg_nodes,          \* DependencyDAG.nodes
    dg_edges,          \* DependencyDAG.edges
    dg_node_stack,     \* node_stack of destructive_walk
    dg_new_stack,      \* new_stack of destructive_walk
    dg_pc,             \* building, walking, done (or panicked)
    dg_calls           \* history: the nodes passed to the callback, in order

mainVars ==
    <<site, srcTime, out, out0, now, run, prev, force, render_stack, finished,
      futs, is_last_future, phase, result, errBy, failedFirst, started, okDone,
      written, writes, fetched, errWhy, emitted>>

raVars ==
    <<ra_render_stack, ra_finished, new_stack, ra_pc, ra_pos, ra_new, polling,
      discoverers>>

fmVars ==
    <<fm_doc, fm_pos, frontmatter_state, fm_buf, frontmatter, fm_emitted,
      fm_ended, fm_open, fm_close, fm_parses>>

slugVars == <<sl_titles, sl_pos, slugs_cache, toc>>

tocVars == <<tc_levels, tc_out, tc_done>>

linkVars == <<lk_filename, lk_path, lk_files, lk_result>>

dagVars == <<dg_nodes, dg_edges, dg_node_stack, dg_new_stack, dg_pc, dg_calls>>

vars == <<mainVars, raVars, fmVars, slugVars, tocVars, linkVars, dagVars>>

\* metadata(path).modified() of a source file.
SrcMtime(p) == srcTime

\* ------------------------------------------------------------- sequences
Contains(s, x) == \E k \in 1..Len(s) : s[k] = x

Count(s, x) == Cardinality({k \in 1..Len(s) : s[k] = x})

RECURSIVE SumOver(_, _)
SumOver(f, S) ==
    IF S = {} THEN 0
    ELSE LET x == CHOOSE y \in S : TRUE IN f[x] + SumOver(f, S \ {x})

\* ------------------------------------------------------------- discovery
\* The guard `!render_stack.contains(&input) && !finished.contains(&input)`.
IsNew(rs, input) == ~Contains(rs, input) /\ input \notin finished

\* A push_front without the guard.
PushFrontAlways(rs, input) == <<input>> \o rs

\* Image, style and font discovery: push_front when new.
PushFrontIfNew(rs, input) == IF IsNew(rs, input) THEN <<input>> \o rs ELSE rs

\* A push_back without the guard.
PushBackAlways(rs, input) == Append(rs, input)

\* Page-link discovery: push_back when new.
PushBackIfNew(rs, input) == IF IsNew(rs, input) THEN Append(rs, input) ELSE rs

\* Url::parse: the URL in its normal form.
UrlParse(u) == IF u = ImageUrlRaw THEN ImageUrl ELSE u

\* A link resolution that did not look for the file.
ResolvesAlways(ev) == TRUE

\* fname.canonicalize() succeeds exactly when the target file exists.
Resolves(ev) == ev.url \in site.exists

\* An adapter that passes the events through and discovers nothing.
AdapterNextInert(rs, ev) == rs

\* One call of RenderAdapter::next (process.rs): the queue after event ev.
AdapterNext(rs, ev) ==
    CASE ev.tag = "Image" -> PushFrontIfNew(rs, Image(UrlParse(ev.url)))
      [] ev.tag = "Link" ->
           IF Resolves(ev) THEN PushBackIfNew(rs, Page(ev.url)) ELSE rs

\* html::push_html drives the adapter over the whole document, without await.
RECURSIVE PushHtml(_, _)
PushHtml(rs, doc) ==
    IF doc = <<>> THEN rs ELSE PushHtml(AdapterNext(rs, Head(doc)), Tail(doc))

\* The style categories a document registers ("_global" is the seed).
StylesOf(doc) ==
    {GlobalStyle}
        \cup {"image" : k \in {j \in 1..Len(doc) : doc[j].tag = "Image"}}
        \cup {"link" : k \in {j \in 1..Len(doc) : doc[j].tag = "Link"}}

\* The loop over the used styles: a chunk that exists under chunks_root is
\* pushed to the front when new.  (The site has at most one chunk, so the
\* iteration order of the HashSet does not show.)
RECURSIVE StyleLoop(_, _)
StyleLoop(rs, names) ==
    IF names = {} THEN rs
    ELSE LET s == CHOOSE x \in names : TRUE
         IN StyleLoop(IF s \in DOMAIN site.chunks
                        THEN PushFrontIfNew(rs, Style(s)) ELSE rs,
                      names \ {s})

\* _style_regex_replacer: every url(..) of the fetched stylesheet, in order.
RECURSIVE FontReplace(_, _)
FontReplace(rs, refs) ==
    IF refs = <<>> THEN rs
    ELSE FontReplace(PushFrontIfNew(rs, Font(Head(refs))), Tail(refs))

\* A reference that kept the extension of the source image.
ImageRefKeepingExt(hashname) == "/images/" \o hashname \o ".png"

\* `format!("/images/{}.webp", hashname)`: the reference put in place of an
\* inline image URL.
ImageRef(hashname) == "/images/" \o hashname \o ".webp"

\* Path::with_extension on a file name given as stem and extension.
WithExtension(p, e) == [p EXCEPT !.ext = e]

\* The file a hyperref link names: a sibling of the page, with extension md.
LinkTarget(stem) == [dir |-> "", name |-> stem, ext |-> "md"]

\* A path relative to its root, as text.
RelString(p) ==
    (IF p.dir = "" THEN "" ELSE p.dir \o "/") \o p.name \o "." \o p.ext

\* `format!("/{}", fname_for_url.with_extension("html"))`: the reference put
\* in place of a hyperref link that resolves.
NewLocation(fname) == "/" \o RelString(WithExtension(fname, "html"))

\* The event RenderAdapter::next (process.rs) hands on for event ev.
Emit(ev) ==
    CASE ev.tag = "Image" ->
           [ev EXCEPT !.url = ImageRef(Sha256Hex(UrlParse(ev.url)))]
      [] ev.tag = "Link" ->
           IF Resolves(ev)
             THEN [ev EXCEPT !.url = NewLocation(LinkTarget(ev.url))]
             ELSE ev

\* The events of a whole document as html::push_html receives them.
EmitAll(doc) == [k \in 1..Len(doc) |-> Emit(doc[k])]

\* `format!("url(/fonts/{})", output_filename)` of _style_regex_replacer,
\* output_filename being the hash of the URL text, a dot and the URL's
\* extension: the path inside url(..).
FontRef(u) == "/fonts/" \o Sha256Hex(u) \o "." \o UrlExt(u)

\* The rewritten references of a fetched stylesheet, in order.
FontRefs(refs) == [k \in 1..Len(refs) |-> FontRef(refs[k])]

\* ------------------------------------------------------------- scheduler
NoInput == [kind |-> "None", key |-> "-"]

Pcs == {"start", "mid"}

Slots == Items \X Pcs

\* FuturesUnordered::len
FutsLen(f) == SumOver(f, Slots)

\* Processor::new on an empty output tree: the sources were last saved at
\* time 0 and the first run starts at time 1.
MainStart ==
    /\ site \in Sites
    /\ out = <<>>
    /\ out0 = <<>>
    /\ srcTime = 0
    /\ now = 1
    /\ run = "first"
    /\ prev = "Pending"
    /\ render_stack = <<>>
    /\ finished = {}
    /\ futs = [s \in Slots |-> 0]
    /\ is_last_future = FALSE
    /\ phase = "new"
    /\ result = "Pending"
    /\ errBy = NoInput
    /\ failedFirst = NoInput
    /\ started = [i \in Items |-> 0]
    /\ okDone = {}
    /\ written = {}
    /\ writes = 0
    /\ fetched = {}
    /\ errWhy = "none"
    /\ emitted = [i \in Items |-> <<>>]

\* The adapters of render_adapter.rs before the first poll: the two roots are
\* pending and their workers exist.
RAStart ==
    /\ ra_render_stack = {Index, Keep}
    /\ ra_finished = {}
    /\ new_stack = [i \in Items |-> <<>>]
    /\ ra_pc = [i \in Items |-> IF i \in {Index, Keep} THEN "ready" ELSE "none"]
    /\ ra_pos = [i \in Items |-> 1]
    /\ ra_new = [i \in Items |-> FALSE]
    /\ polling = NoInput
    /\ discoverers = [i \in Items |-> {}]

\* A RenderAdapter of render_adapter.rs as `new` leaves it, over the events
\* of document doc.
FMNew(doc) ==
    /\ fm_doc = doc
    /\ fm_pos = 1
    /\ frontmatter_state = "Ready"
    /\ fm_buf = <<>>
    /\ frontmatter = [kind |-> "None", title |-> <<>>, date |-> "None"]
    /\ fm_emitted = <<>>
    /\ fm_ended = FALSE
    /\ fm_open = 0
    /\ fm_close = 0
    /\ fm_parses = <<>>

\* No document is being streamed.
FMIdle == FMNew(<<>>)

\* A RenderAdapter as `new` leaves it, before setup_header_links runs over
\* the headings with the given texts.
SlugNew(titles) ==
    /\ sl_titles = titles
    /\ sl_pos = 1
    /\ slugs_cache = <<>>
    /\ toc = <<>>

\* No heading is being processed.
SlugIdle == SlugNew(<<>>)

\* A RenderAdapter whose toc holds headings of the given levels, before
\* render_toc.
TocNew(levels) ==
    /\ tc_levels = levels
    /\ tc_out = <<>>
    /\ tc_done = FALSE

\* A document with a hyperref link of path `path`, before the link event
\* reaches the adapter; `files` are the markdown files that exist.
LinkNew(filename, path, files) ==
    /\ lk_filename = filename
    /\ lk_path = path
    /\ lk_files = files
    /\ lk_result = "none"

\* DependencyDAG::new: the root is node 0 and there is no edge.
DagNew ==
    /\ dg_nodes = <<"root">>
    /\ dg_edges = <<>>
    /\ dg_node_stack = <<>>
    /\ dg_new_stack = <<>>
    /\ dg_pc = "build"
    /\ dg_calls = <<>>

\* The parts of the engine that a specification does not look at stay as
\* they are constructed.
Idle ==
    /\ TocNew(<<>>)
    /\ LinkNew(<<"src", "index.md">>, [abs |-> FALSE, parts |-> <<"a">>], {})
    /\ DagNew

\* On the empty tree no freshness test can pass, so force makes no
\* difference to the first run: it starts without.
Init == MainStart /\ force = FALSE /\ RAStart /\ FMIdle /\ SlugIdle /\ Idle

\* render_toplevel: seed the queue, then await render_all.
RenderToplevel ==
    /\ phase = "new"
    /\ render_stack' = <<Keep>> \o (<<Index>> \o render_stack)
    /\ phase' = "poll"
    /\ UNCHANGED <<raVars, fmVars, slugVars, tocVars, linkVars, dagVars>>
    /\ UNCHANGED <<out0, emitted>>
    /\ UNCHANGED <<site, srcTime, out, now, run, prev, force, finished, futs,
                   is_last_future, result, errBy, failedFirst, started,
                   okDone, written, writes, fetched, errWhy>>

\* RenderAllFuture::poll, first half: every queued input is popped and a
\* future is created for it; then futs.len() is looked at.
Drained(f, rs) ==
    [s \in Slots |-> IF s[2] = "start" THEN f[s] + Count(rs, s[1]) ELSE f[s]]

Poll ==
    /\ phase = "poll"
    /\ SumOver(started, Items) + Len(render_stack) <= MaxDispatch
    /\ futs' = Drained(futs, render_stack)
    /\ started' = [i \in Items |-> started[i] + Count(render_stack, i)]
    /\ is_last_future' = (FutsLen(Drained(futs, render_stack)) = 1)
    /\ render_stack' = <<>>
    /\ phase' = "poll_next"
    /\ UNCHANGED <<raVars, fmVars, slugVars, tocVars, linkVars, dagVars>>
    /\ UNCHANGED <<out0, emitted>>
    /\ UNCHANGED <<site, srcTime, out, now, run, prev, force, finished, result, errBy,
                   failedFirst, okDone, written, writes, fetched, errWhy>>

\* A poll that takes a failed future for a finished one and goes on; the
\* first-error rule (C5) does not survive it.
PollResultSwallowingErr(r, last) ==
    IF last THEN [phase |-> "done", result |-> "Ok"]
    ELSE [phase |-> "poll", result |-> "Pending"]

\* RenderAllFuture::poll, the match on what poll_next returned for a future
\* that completed with r.
PollResult(r, last) ==
    IF r = "Err" THEN [phase |-> "done", result |-> "Err"]
    ELSE IF last THEN [phase |-> "done", result |-> "Ok"]
    ELSE [phase |-> "poll", result |-> "Pending"]

\* A future for input at position pc completes with r inside poll_next.
Complete(input, pc, r) ==
    /\ futs' = [futs EXCEPT ![<<input, pc>>] = @ - 1]
    /\ failedFirst' =
          IF r = "Err" /\ failedFirst = NoInput THEN input ELSE failedFirst
    /\ okDone' = IF r = "Ok" THEN okDone \cup {input} ELSE okDone
    /\ LET pr == PollResult(r, is_last_future)
       IN /\ phase' = pr.phase
          /\ result' = pr.result
          /\ errBy' = IF pr.result = "Err" THEN input ELSE errBy

\* A future for input stops at an await after its first part.
Suspend(input) ==
    /\ futs' = [futs EXCEPT ![<<input, "start">>] = @ - 1,
                            ![<<input, "mid">>] = @ + 1]
    /\ UNCHANGED <<phase, result, errBy, failedFirst, okDone, errWhy>>

\* The future for input at position pc returns Err; why is the cause.
Fail(input, pc, why) == Complete(input, pc, "Err") /\ errWhy' = why

\* The future for input at position pc returns Ok.
Succeed(input, pc) == Complete(input, pc, "Ok") /\ UNCHANGED errWhy

\* poll_next found every future pending (poll returns Pending and is polled
\* again on the next wake-up), or found no future at all.
PollNextReturns ==
    /\ phase = "poll_next"
    /\ IF FutsLen(futs) = 0
         THEN phase' = "done" /\ result' = "Ok"
         ELSE phase' = "poll" /\ UNCHANGED result
    /\ UNCHANGED <<raVars, fmVars, slugVars, tocVars, linkVars, dagVars>>
    /\ UNCHANGED <<out0, emitted>>
    /\ UNCHANGED <<site, srcTime, out, now, run, prev, force, render_stack, finished,
                   futs, is_last_future, errBy, failedFirst, started, okDone,
                   written, writes, fetched, errWhy>>

\* ------------------------------------------------------------- pipelines
\* A render is cut in two at an await: the first part ends where the render
\* has looked at its source and registered what it found, the second part
\* does the rest.  An await may be ready when it is polled, so a future may
\* take both parts within one poll_next, or the second part in a later one.
\* poll_next polls a future for input that stands at pc.
Running(input, pc, kinds) ==
    /\ phase = "poll_next"
    /\ input.kind \in kinds
    /\ futs[<<input, pc>>] > 0

PageKinds == {"Index", "Keep", "Page"}

\* File::create on path p for input: the file is there from then on and has
\* the time of the write; write_all or copy fills it.
Write(input, p) ==
    /\ out' = (p :> now) @@ out
    /\ written' = written \cup {<<input, p>>}
    /\ writes' = writes + 1

NoWrite == UNCHANGED <<out, written, writes>>

\* A directory of the output tree exists when a file has been put into it
\* (the tree is empty before the first run).
DirExists(d) == \E p \in DOMAIN out : p.dir = d

\* A render that did not look whether the source is there.
SourceMissingNever(input) == FALSE

\* `!filename.exists()` of Processor::render.
SourceMissing(input) == Filename(input) \notin site.exists

\* Processor::render, page part, up to the await on the prelude: existence
\* check, parse with discovery, style loop.
PageStart(input) ==
    /\ Running(input, "start", PageKinds)
    /\ IF SourceMissing(input)
         THEN /\ Succeed(input, "start")
              /\ UNCHANGED <<render_stack, emitted>>
         ELSE /\ render_stack' =
                     StyleLoop(PushHtml(render_stack, site.docs[Filename(input)]),
                               StylesOf(site.docs[Filename(input)]))
              /\ emitted' = [emitted EXCEPT
                                ![input] = EmitAll(site.docs[Filename(input)])]
              /\ Suspend(input)
    /\ NoWrite
    /\ UNCHANGED <<raVars, fmVars, slugVars, tocVars, linkVars, dagVars>>
    /\ UNCHANGED out0
    /\ UNCHANGED <<site, srcTime, now, run, prev, force, finished,
                   is_last_future, started, fetched>>

\* A needs_update that takes equal modification times for fresh.
NeedsUpdateStrict(input) ==
    \/ OutPath(input) \notin DOMAIN out
    \/ SrcMtime(Filename(input)) > out[OutPath(input)]

\* needs_update of Processor::render.
NeedsUpdate(input) ==
    \/ OutPath(input) \notin DOMAIN out
    \/ SrcMtime(Filename(input)) >= out[OutPath(input)]

\* A write branch without the test for Keep.
NeverWritesNothing(input) == FALSE

\* `input == RenderingInput::Keep` in the write branch of Processor::render.
NeverWrites(input) == input = Keep

\* Processor::render, page part, from the prelude to the end: a prelude
\* that cannot be opened is an error.
PageFinish(input) ==
    /\ Running(input, "mid", PageKinds)
    /\ IF ~site.prelude
         THEN /\ Fail(input, "mid", "io")
              /\ NoWrite
              /\ UNCHANGED finished
         ELSE /\ IF (~NeedsUpdate(input) /\ ~force) \/ NeverWrites(input)
                   THEN NoWrite
                   ELSE Write(input, OutPath(input))
              /\ finished' = finished \cup {input}
              /\ Succeed(input, "mid")
    /\ UNCHANGED <<raVars, fmVars, slugVars, tocVars, linkVars, dagVars>>
    /\ UNCHANGED <<out0, emitted>>
    /\ UNCHANGED <<site, srcTime, now, run, prev, force, render_stack,
                   is_last_future, started, fetched>>

\* A freshness test of render_image and render_font that did not look at
\* `force`.
AssetFreshIgnoringForce(input) == OutPath(input) \in DOMAIN out

\* A freshness test for images and fonts that compared modification times
\* as the one for styles does.
AssetFreshByMtime(input) ==
    /\ ~force
    /\ OutPath(input) \in DOMAIN out
    /\ out[OutPath(input)] > srcTime

\* The freshness test of render_image and render_font.
AssetFresh(input) == ~force /\ OutPath(input) \in DOMAIN out

\* render_image / render_font up to the answer of the host: the freshness
\* test, then the request, which may fail.
AssetStart(input) ==
    /\ Running(input, "start", {"Image", "Font"})
    /\ IF AssetFresh(input)
         THEN /\ finished' = finished \cup {input}
              /\ Succeed(input, "start")
              /\ UNCHANGED fetched
         ELSE /\ UNCHANGED finished
              /\ fetched' = fetched \cup {input}
              /\ \E ok \in BOOLEAN :
                   IF ok THEN Suspend(input) ELSE Fail(input, "start", "fetch")
    /\ NoWrite
    /\ UNCHANGED <<raVars, fmVars, slugVars, tocVars, linkVars, dagVars>>
    /\ UNCHANGED <<out0, emitted>>
    /\ UNCHANGED <<site, srcTime, now, run, prev, force, render_stack,
                   is_last_future, started>>

\* File::create followed by tokio::io::copy of the response body, which may
\* break off.
CreateAndCopy(input) ==
    /\ Write(input, OutPath(input))
    /\ \E body \in BOOLEAN :
         IF body
           THEN /\ finished' = finished \cup {input}
                /\ Succeed(input, "mid")
           ELSE /\ UNCHANGED finished
                /\ Fail(input, "mid", "fetch")

\* render_font after the answer: create_dir_all, then create and copy.
FontTail(input) == CreateAndCopy(input)

\* render_image after the answer, WebP branch: create and copy, without
\* create_dir_all.
WebPTail(input) ==
    IF DirExists(OutPath(input).dir)
      THEN CreateAndCopy(input)
      ELSE /\ NoWrite
           /\ UNCHANGED finished
           /\ Fail(input, "mid", "create")

\* render_image after the answer, any other format: read_to_end,
\* create_dir_all, File::create, decode, encode, write_all.
TranscodeTail(input) ==
    \E how \in {"ok", "body", "decode"} :
        CASE how = "body" ->
               /\ NoWrite
               /\ UNCHANGED finished
               /\ Fail(input, "mid", "fetch")
          [] how = "decode" ->
               /\ Write(input, OutPath(input))
               /\ UNCHANGED finished
               /\ Fail(input, "mid", "decode")
          [] how = "ok" ->
               /\ Write(input, OutPath(input))
               /\ finished' = finished \cup {input}
               /\ Succeed(input, "mid")

\* render_image / render_font from the answer of the host to the end.
AssetFinish(input) ==
    /\ Running(input, "mid", {"Image", "Font"})
    /\ CASE input.kind = "Font" -> FontTail(input)
         [] input.kind = "Image" /\ site.content_type = "image/webp" ->
              WebPTail(input)
         [] OTHER -> TranscodeTail(input)
    /\ UNCHANGED <<raVars, fmVars, slugVars, tocVars, linkVars, dagVars>>
    /\ UNCHANGED <<out0, emitted>>
    /\ UNCHANGED <<site, srcTime, now, run, prev, force, render_stack,
                   is_last_future, started, fetched>>

\* A freshness test of render_style that takes equal times for fresh.
StyleFreshOrEqual(input) ==
    /\ ~force
    /\ OutPath(input) \in DOMAIN out
    /\ out[OutPath(input)] >= SrcMtime(input.key)

\* The freshness test of render_style.
StyleFresh(input) ==
    /\ ~force
    /\ OutPath(input) \in DOMAIN out
    /\ out[OutPath(input)] > SrcMtime(input.key)

\* `!path.exists()` of render_style.
ChunkMissing(input) == input.key \notin DOMAIN site.chunks

\* An early return of render_style that left out finished.insert, as the
\* one of Processor::render for a missing page source does.
StyleSkipUnmarked(input) ==
    /\ UNCHANGED finished
    /\ Succeed(input, "start")
    /\ UNCHANGED <<render_stack, fetched, emitted>>

\* The early returns of render_style (chunk missing, output fresh):
\* finished.insert, Ok.
StyleSkip(input) ==
    /\ finished' = finished \cup {input}
    /\ Succeed(input, "start")
    /\ UNCHANGED <<render_stack, fetched, emitted>>

\* render_style up to the end of the directive replacement: a chunk with an
\* @font directive fetches the stylesheet it names, which may fail.
StyleStart(input) ==
    /\ Running(input, "start", {"Style"})
    /\ IF ChunkMissing(input) \/ StyleFresh(input)
         THEN StyleSkip(input)
         ELSE /\ UNCHANGED finished
              /\ IF site.chunks[input.key] = <<>>
                   THEN /\ Suspend(input)
                        /\ UNCHANGED <<render_stack, fetched, emitted>>
                   ELSE /\ fetched' = fetched \cup {input}
                        /\ \E ok \in BOOLEAN :
                             IF ok
                               THEN /\ render_stack' =
                                         FontReplace(render_stack,
                                                     site.chunks[input.key])
                                    /\ emitted' =
                                         [emitted EXCEPT ![input] =
                                            FontRefs(site.chunks[input.key])]
                                    /\ Suspend(input)
                               ELSE /\ Fail(input, "start", "fetch")
                                    /\ UNCHANGED <<render_stack, emitted>>
    /\ NoWrite
    /\ UNCHANGED <<raVars, fmVars, slugVars, tocVars, linkVars, dagVars>>
    /\ UNCHANGED out0
    /\ UNCHANGED <<site, srcTime, now, run, prev, force, is_last_future,
                   started>>

\* render_style from create_dir_all and the minification to the end.
StyleFinish(input) ==
    /\ Running(input, "mid", {"Style"})
    /\ Write(input, OutPath(input))
    /\ finished' = finished \cup {input}
    /\ Succeed(input, "mid")
    /\ UNCHANGED <<raVars, fmVars, slugVars, tocVars, linkVars, dagVars>>
    /\ UNCHANGED <<out0, emitted>>
    /\ UNCHANGED <<site, srcTime, now, run, prev, force, render_stack,
                   is_last_future, started, fetched>>

\* The environment: during the first run the chunk is deleted after a page
\* has registered its style item and before render_style looks for it.
ChunkRemoved ==
    /\ run = "first"
    /\ phase \in {"poll", "poll_next"}
    /\ GlobalStyle \in DOMAIN site.chunks
    /\ futs[<<Style(GlobalStyle), "start">>] > 0
    /\ site' = [site EXCEPT !.chunks = <<>>]
    /\ UNCHANGED <<raVars, fmVars, slugVars, tocVars, linkVars, dagVars>>
    /\ UNCHANGED <<out0, emitted>>
    /\ UNCHANGED <<srcTime, out, now, run, prev, force, render_stack, finished,
                   futs, is_last_future, phase, result, errBy, failedFirst,
                   started, okDone, written, writes, fetched, errWhy>>

\* After a successful run the engine is started again, later, on the same
\* tree, with a new Processor; the sources may have been saved again, while
\* the first run was writing or after it.
Rerun ==
    /\ phase = "done"
    /\ result = "Ok"
    /\ run = "first"
    /\ run' = "second"
    /\ prev' = result
    /\ force' \in BOOLEAN
    /\ now' = now + 1
    /\ srcTime' \in {srcTime, now, now'}
    /\ render_stack' = <<>>
    /\ finished' = {}
    /\ futs' = [s \in Slots |-> 0]
    /\ is_last_future' = FALSE
    /\ phase' = "new"
    /\ result' = "Pending"
    /\ errBy' = NoInput
    /\ failedFirst' = NoInput
    /\ started' = [i \in Items |-> 0]
    /\ okDone' = {}
    /\ written' = {}
    /\ writes' = 0
    /\ fetched' = {}
    /\ errWhy' = "none"
    /\ emitted' = [i \in Items |-> <<>>]
    /\ out0' = out
    /\ UNCHANGED <<site, out>>
    /\ UNCHANGED <<raVars, fmVars, slugVars, tocVars, linkVars, dagVars>>

Next ==
    \/ RenderToplevel
    \/ Poll
    \/ PollNextReturns
    \/ \E i \in Items : PageStart(i)
    \/ \E i \in Items : PageFinish(i)
    \/ \E i \in Items : AssetStart(i)
    \/ \E i \in Items : AssetFinish(i)
    \/ \E i \in Items : StyleStart(i)
    \/ \E i \in Items : StyleFinish(i)
    \/ ChunkRemoved
    \/ Rerun

Spec == Init /\ [][Next]_vars

\* ------------------------------------------------- render_adapter.rs
\* The adapter of render_adapter.rs keeps the pending and the finished inputs
\* in two shared sets and hands what it registers to the scheduler through
\* the new_stack of its worker.  The workers are futures of one
\* FuturesUnordered, as in RenderAllFuture: one future is polled at a time,
\* and it runs until it reaches an await or ends.

\* The events the worker of input feeds to its adapter.
RADoc(input) ==
    IF input.kind \in PageKinds /\ Filename(input) \in site.exists
      THEN site.docs[Filename(input)]
      ELSE <<>>

\* The input an event names: an inline image, or an inline hyperref link
\* whose target canonicalizes; NoInput for anything else.
RAInputOf(ev) ==
    CASE ev.tag = "Image" -> Image(UrlParse(ev.url))
      [] ev.tag = "Link" -> IF Resolves(ev) THEN Page(ev.url) ELSE NoInput

\* A guard that looks at the finished set only; the registration rule (C3)
\* does not survive it.
RAIsNewIgnoringPending(input) == input \notin ra_finished

\* The guard `!render_stack.contains(&input) && !finished.contains(&input)`.
RAIsNew(input) == input \notin ra_render_stack /\ input \notin ra_finished

\* How often input stands in the new_stacks of all workers.
Registrations(input) ==
    SumOver([w \in Items |-> Count(new_stack[w], input)], Items)

\* The code of worker w runs while its future is the one being polled.
BeingPolled(w) == polling = w

\* poll_next picks a future that is ready to run.
RAPoll(w) ==
    /\ polling = NoInput
    /\ ra_pc[w] = "ready"
    /\ polling' = w
    /\ UNCHANGED <<ra_render_stack, ra_finished, new_stack, ra_pc, ra_pos,
                   ra_new, discoverers>>
    /\ UNCHANGED mainVars
    /\ UNCHANGED <<fmVars, slugVars, tocVars, linkVars, dagVars>>

\* RenderAdapter::next, the two contains calls on the sets for the event at
\* ra_pos[w].
RAGuard(w) ==
    /\ BeingPolled(w)
    /\ ra_pc[w] = "ready"
    /\ ra_pos[w] <= Len(RADoc(w))
    /\ LET input == RAInputOf(RADoc(w)[ra_pos[w]])
       IN ra_new' = [ra_new EXCEPT ![w] = input # NoInput /\ RAIsNew(input)]
    /\ ra_pc' = [ra_pc EXCEPT ![w] = "guarded"]
    /\ UNCHANGED <<ra_render_stack, ra_finished, new_stack, ra_pos, polling,
                   discoverers>>
    /\ UNCHANGED mainVars
    /\ UNCHANGED <<fmVars, slugVars, tocVars, linkVars, dagVars>>

\* RenderAdapter::next, the body of the guard: render_stack.insert and
\* new_stack.push, then the event is passed on.
RARegister(w) ==
    /\ BeingPolled(w)
    /\ ra_pc[w] = "guarded"
    /\ LET input == RAInputOf(RADoc(w)[ra_pos[w]])
       IN /\ IF ra_new[w]
               THEN /\ ra_render_stack' = ra_render_stack \cup {input}
                    /\ new_stack' = [new_stack EXCEPT ![w] = Append(@, input)]
               ELSE UNCHANGED <<ra_render_stack, new_stack>>
          /\ discoverers' =
                IF input = NoInput THEN discoverers
                ELSE [discoverers EXCEPT ![input] = @ \cup {w}]
    /\ ra_pos' = [ra_pos EXCEPT ![w] = @ + 1]
    /\ ra_pc' = [ra_pc EXCEPT ![w] = "ready"]
    /\ UNCHANGED <<ra_finished, ra_new, polling>>
    /\ UNCHANGED mainVars
    /\ UNCHANGED <<fmVars, slugVars, tocVars, linkVars, dagVars>>

\* The worker reaches an await that is not ready: before the document is
\* parsed (the source is being read) or after it (the output is being
\* written).  There is no await inside the parse.
RAPending(w) ==
    /\ BeingPolled(w)
    /\ ra_pc[w] = "ready"
    /\ ra_pos[w] \in {1, Len(RADoc(w)) + 1}
    /\ polling' = NoInput
    /\ UNCHANGED <<ra_render_stack, ra_finished, new_stack, ra_pc, ra_pos,
                   ra_new, discoverers>>
    /\ UNCHANGED mainVars
    /\ UNCHANGED <<fmVars, slugVars, tocVars, linkVars, dagVars>>

\* The worker ends: its input moves from pending to finished and a worker is
\* created for every input of its new_stack.
RAFinish(w) ==
    /\ BeingPolled(w)
    /\ ra_pc[w] = "ready"
    /\ ra_pos[w] = Len(RADoc(w)) + 1
    /\ ra_render_stack' = ra_render_stack \ {w}
    /\ ra_finished' = ra_finished \cup {w}
    /\ ra_pc' = [i \in Items |->
                   IF i = w THEN "done"
                   ELSE IF Contains(new_stack[w], i) /\ ra_pc[i] = "none"
                          THEN "ready"
                   ELSE ra_pc[i]]
    /\ polling' = NoInput
    /\ UNCHANGED <<new_stack, ra_pos, ra_new, discoverers>>
    /\ UNCHANGED mainVars
    /\ UNCHANGED <<fmVars, slugVars, tocVars, linkVars, dagVars>>

InitRA == MainStart /\ force = FALSE /\ RAStart /\ FMIdle /\ SlugIdle /\ Idle

NextRA ==
    \/ \E w \in Items : RAPoll(w)
    \/ \E w \in Items : RAGuard(w)
    \/ \E w \in Items : RARegister(w)
    \/ \E w \in Items : RAPending(w)
    \/ \E w \in Items : RAFinish(w)

SpecRA == InitRA /\ [][NextRA]_vars

\* ------------------------------------------------ heading slugs (SpecSlug)
\* A heading text is a sequence of characters.
Intro == <<"I", "n", "t", "r", "o">>

\* The heading texts a document draws from: they slugify to intro, intro,
\* intro1, in-tro and a.
SlugTitles ==
    { Intro,
      Intro \o <<"!">>,
      <<"i", "n", "t", "r", "o", "1">>,
      <<"I", "n", " ", "t", "r", "o">>,
      <<"a">> }

TitleLists == UNION {[1..n -> SlugTitles] : n \in 0..MaxHeadings}

\* char::to_lowercase, on the characters in use.
ToLower(c) == IF c = "I" THEN "i" ELSE c

\* char::is_alphanumeric, on the characters in use.
IsAlphanumeric(c) == c \notin {" ", "!", "-"}

IsSlugChar(c) == IsAlphanumeric(c) \/ c = "-"

\* The first statement of header_slug: lower case, blanks to hyphens, all
\* but alphanumerics and hyphens dropped.
FixedUp(title) ==
    SelectSeq([k \in 1..Len(title) |->
                  IF ToLower(title[k]) = " " THEN "-" ELSE ToLower(title[k])],
              IsSlugChar)

Digit(d) ==
    CASE d = 0 -> "0" [] d = 1 -> "1" [] d = 2 -> "2" [] d = 3 -> "3"
      [] d = 4 -> "4" [] d = 5 -> "5" [] d = 6 -> "6" [] d = 7 -> "7"
      [] d = 8 -> "8" [] d = 9 -> "9"

\* `{}` of format! for a usize: the decimal digits.
RECURSIVE Decimal(_)
Decimal(n) ==
    IF n < 10 THEN <<Digit(n)>> ELSE Decimal(n \div 10) \o <<Digit(n % 10)>>

\* A counter that stays at one.
RepetitionStuck(cache, f) == 1

\* `self.slugs_cache[&fixed_up] + 1`: the count stored for a repeated text.
Repetition(cache, f) == cache[f] + 1

\* header_slug: the cache after the call and the slug returned.
HeaderSlug(cache, title) ==
    LET f == FixedUp(title)
    IN  IF f \in DOMAIN cache
          THEN LET c == [cache EXCEPT ![f] = Repetition(cache, f)]
               IN  [cache |-> c, slug |-> f \o Decimal(c[f])]
          ELSE [cache |-> (f :> 0) @@ cache, slug |-> f]

\* An empty site: the scheduler has nothing to do while an adapter is looked
\* at on its own.
QuietSite ==
    [exists |-> {}, docs |-> [st \in Stems |-> <<>>], chunks |-> <<>>,
     prelude |-> TRUE, content_type |-> "image/png"]

MainIdle == MainStart /\ site = QuietSite /\ force = FALSE

\* One call of the closure of setup_header_links: header_slug for the next
\* heading, and the entry of the table of contents.
SetupHeaderLink ==
    /\ sl_pos <= Len(sl_titles)
    /\ LET r == HeaderSlug(slugs_cache, sl_titles[sl_pos])
       IN  /\ slugs_cache' = r.cache
           /\ toc' = Append(toc, r.slug)
    /\ sl_pos' = sl_pos + 1
    /\ UNCHANGED sl_titles
    /\ UNCHANGED <<mainVars, raVars, fmVars, tocVars, linkVars, dagVars>>

InitSlug ==
    /\ MainIdle
    /\ RAStart
    /\ FMIdle
    /\ Idle
    /\ \E titles \in TitleLists : SlugNew(titles)

NextSlug == SetupHeaderLink

SpecSlug == InitSlug /\ [][NextSlug]_vars

\* ---------------------------------------- frontmatter extraction (SpecFM)
\* The events of pulldown_cmark the extraction tells apart.
Ev(tag) == [tag |-> tag, text |-> <<>>]

\* A Text event; its text is a key with a value ("key: value") or, with
\* the empty key, plain words.
Text(key, val) == [tag |-> "Text", text |-> <<key, val>>]

TitleLine == Text("title", "T")
DateLine == Text("date", "01/02/2020")
BadDateLine == Text("date", "2020-01-02")
BodyLine == Text("", "body")

\* What a heading or a paragraph holds: one line, or two lines with a soft
\* break between them.
Contents ==
    { <<TitleLine>>,
      <<TitleLine, Ev("SoftBreak"), DateLine>>,
      <<TitleLine, Ev("SoftBreak"), BadDateLine>>,
      <<BodyLine>> }

\* The blocks of a document, each as the events the parser yields for it: a
\* thematic break, a heading (a text line underlined with --- is one), a
\* paragraph.
Blocks ==
    {<<Ev("Rule")>>}
        \cup {<<Ev("StartHeading")>> \o c \o <<Ev("EndHeading")>> : c \in Contents}
        \cup {<<Ev("StartParagraph")>> \o c \o <<Ev("EndParagraph")>> :
                 c \in Contents}

RECURSIVE Flatten(_)
Flatten(bs) == IF bs = <<>> THEN <<>> ELSE Head(bs) \o Flatten(Tail(bs))

\* The event streams of the documents of up to MaxBlocks blocks.
FMDocs == {Flatten(bs) : bs \in UNION {[1..n -> Blocks] : n \in 0..MaxBlocks}}

\* What `ps.push('\n')` appends for a soft break.
Newline == <<"", "\n">>

\* Option::None for the frontmatter, and the error of a parse.
None == [kind |-> "None", title |-> <<>>, date |-> "None"]
ParseErr == [kind |-> "Err", title |-> <<>>, date |-> "None"]

\* The buffered string cut into lines at the pushed newlines; a line is the
\* sequence of the texts pushed one after the other.
RECURSIVE SplitLines(_, _)
SplitLines(buf, line) ==
    IF buf = <<>> THEN <<line>>
    ELSE IF Head(buf) = Newline
           THEN <<line>> \o SplitLines(Tail(buf), <<>>)
           ELSE SplitLines(Tail(buf), Append(line, Head(buf)))

\* A line as YAML reads it: the texts run together, so the key is that of
\* the first text with any plain words before it, a second ": " within the
\* line is a syntax error, and a line without ": " is a plain scalar.
YamlLine(line) ==
    LET keyed == {k \in 1..Len(line) : line[k][1] # ""}
    IN  IF keyed = {} THEN [kind |-> "scalar", key |-> "", val |-> <<>>]
        ELSE IF Cardinality(keyed) > 1
               THEN [kind |-> "bad", key |-> "", val |-> <<>>]
               ELSE LET k == CHOOSE x \in keyed : TRUE
                    IN  [kind |-> "kv",
                         key |-> IF k = 1 THEN line[k][1] ELSE "unknown",
                         val |-> [m \in 1..(Len(line) - k + 1) |->
                                     line[m + k - 1][2]]]

\* NaiveDate::parse_from_str(v, "%m/%d/%Y") accepts the value.
DateOk(val) == val = <<"01/02/2020">>

\* Frontmatter::parse_from_str: serde_yaml into the struct with the required
\* field title and the optional field date; ParseErr for a failure.
ParseFromStr(buf) ==
    LET lines == SplitLines(buf, <<>>)
        ys == [k \in 1..Len(lines) |-> YamlLine(lines[k])]
        titles == {k \in 1..Len(ys) : ys[k].key = "title"}
        dates == {k \in 1..Len(ys) : ys[k].key = "date"}
    IN  IF \/ \E k \in 1..Len(ys) : ys[k].kind # "kv"
           \/ Cardinality(titles) # 1
           \/ Cardinality(dates) > 1
           \/ \E k \in dates : ~DateOk(ys[k].val)
          THEN ParseErr
          ELSE [kind |-> "Some",
                title |-> ys[CHOOSE k \in titles : TRUE].val,
                date |-> IF dates = {} THEN "None" ELSE "01/02/2020"]

\* A rule that started the buffering whenever none is going on.
StartsParsingAgain(st) == st \in {"Ready", "Done"}

\* `if let Ready = self.frontmatter_state` on a Rule event.
StartsParsing(st) == st = "Ready"

\* A state that went on buffering after a failed parse.
StateAfterParseRetrying(r) == IF r = ParseErr THEN "Parsing" ELSE "Done"

\* `self.frontmatter_state = Done` after the closing marker.
StateAfterParse(r) == "Done"

\* The adapter's frontmatter fields after the statements of next() that
\* look at the markers and the texts (render_adapter.rs 181-238) have seen
\* the event at fm_pos.
AfterItem ==
    LET item == fm_doc[fm_pos]
        here == [state |-> frontmatter_state, buf |-> fm_buf,
                 fm |-> frontmatter, parses |-> fm_parses,
                 open |-> fm_open, close |-> fm_close]
        r == ParseFromStr(fm_buf)
        finished_block ==
            IF fm_buf = <<>>
              THEN [here EXCEPT !.state = "Done", !.close = fm_pos]
              ELSE [here EXCEPT
                      !.state = StateAfterParse(r),
                      !.fm = IF r = ParseErr THEN None ELSE r,
                      !.parses = Append(fm_parses, r),
                      !.close = fm_pos]
    IN  CASE item.tag = "Rule" /\ StartsParsing(frontmatter_state) ->
               [here EXCEPT !.state = "Parsing", !.buf = <<>>, !.open = fm_pos]
          [] item.tag = "Rule" /\ ~StartsParsing(frontmatter_state)
                /\ frontmatter_state = "Parsing" -> finished_block
          [] item.tag = "EndHeading" /\ frontmatter_state = "Parsing" ->
               finished_block
          [] item.tag = "Text" /\ frontmatter_state = "Parsing" ->
               [here EXCEPT !.buf = Append(fm_buf, item.text)]
          [] item.tag = "SoftBreak" /\ frontmatter_state = "Parsing" ->
               [here EXCEPT !.buf = Append(fm_buf, Newline)]
          [] OTHER -> here

\* The fields of the adapter take the values of AfterItem, and the inner
\* iterator has moved on.
Consume ==
    /\ ~fm_ended
    /\ fm_pos <= Len(fm_doc)
    /\ frontmatter_state' = AfterItem.state
    /\ fm_buf' = AfterItem.buf
    /\ frontmatter' = AfterItem.fm
    /\ fm_parses' = AfterItem.parses
    /\ fm_open' = AfterItem.open
    /\ fm_close' = AfterItem.close
    /\ fm_pos' = fm_pos + 1
    /\ UNCHANGED <<fm_doc, fm_ended>>
    /\ UNCHANGED <<mainVars, raVars, slugVars, tocVars, linkVars, dagVars>>

\* An activation of next() that ends in `return self.next()`: the event is
\* swallowed since the state is Parsing.
FMSkip ==
    /\ Consume
    /\ AfterItem.state = "Parsing"
    /\ UNCHANGED fm_emitted

\* An activation of next() that returns Some(item).
FMEmit ==
    /\ Consume
    /\ AfterItem.state # "Parsing"
    /\ fm_emitted' = Append(fm_emitted, fm_pos)

\* `self.iter.next()?` at the end of the document: next() returns None.
FMEnd ==
    /\ ~fm_ended
    /\ fm_pos > Len(fm_doc)
    /\ fm_ended' = TRUE
    /\ UNCHANGED <<fm_doc, fm_pos, frontmatter_state, fm_buf, frontmatter,
                   fm_emitted, fm_open, fm_close, fm_parses>>
    /\ UNCHANGED <<mainVars, raVars, slugVars, tocVars, linkVars, dagVars>>

InitFM ==
    /\ MainIdle
    /\ RAStart
    /\ SlugIdle
    /\ Idle
    /\ \E doc \in FMDocs : FMNew(doc)

NextFM == FMSkip \/ FMEmit \/ FMEnd

SpecFM == InitFM /\ [][NextFM]_vars

\* ------------------------------------------- render_adapter.rs, the toc
\* The levels of the headings of a document, in order (<h1> .. <h3>).
TocLists == UNION {[1..n -> 1..MaxLevel] : n \in 0..MaxTocLen}

\* The loop of render_toc over the entries, last_level being the level of
\* the entry before: one <ol> when the level rises, one </ol> when it
\* falls, then the entry; after the last entry `last_level` times </ol>.
RECURSIVE TocLoop(_, _)
TocLoop(levels, last_level) ==
    IF levels = <<>>
      THEN [k \in 1..last_level |-> "</ol>"]
      ELSE (IF Head(levels) > last_level THEN <<"<ol>">> ELSE <<>>)
             \o (IF Head(levels) < last_level THEN <<"</ol>">> ELSE <<>>)
             \o <<"<li>">>
             \o TocLoop(Tail(levels), Head(levels))

\* render_toc: nothing for an empty toc, else the loop from last_level 0.
RenderToc ==
    /\ ~tc_done
    /\ tc_out' = IF tc_levels = <<>> THEN <<>> ELSE TocLoop(tc_levels, 0)
    /\ tc_done' = TRUE
    /\ UNCHANGED tc_levels
    /\ UNCHANGED <<mainVars, raVars, fmVars, slugVars, linkVars, dagVars>>

InitToc ==
    /\ MainIdle
    /\ RAStart
    /\ FMIdle
    /\ SlugIdle
    /\ LinkNew(<<"src", "index.md">>, [abs |-> FALSE, parts |-> <<"a">>], {})
    /\ DagNew
    /\ \E levels \in TocLists : TocNew(levels)

SpecToc == InitToc /\ [][RenderToc]_vars

\* --------------------------------------- process.rs, hyperref resolution
\* Paths are the sequences of their components below "/".  The directories
\* that exist: "/", the source root, a directory in it, the output root.
LinkDirs == {<<>>, <<"src">>, <<"src", "sub">>, <<"out">>}

\* The path a hyperref link is resolved to, before canonicalize: an absolute
\* path is joined to the output root, any other to the directory of the
\* document; then with_extension("md").
LinkFname ==
    (IF lk_path.abs THEN <<"out">> ELSE SubSeq(lk_filename, 1, Len(lk_filename) - 1))
        \o SubSeq(lk_path.parts, 1, Len(lk_path.parts) - 1)
        \o <<lk_path.parts[Len(lk_path.parts)] \o ".md">>

\* Path::canonicalize, component by component from "/": ".." goes to the
\* parent ("/" is its own), a name goes down; every directory on the way
\* has to exist.  <<"?">> stands for a path that does not resolve.
RECURSIVE Walk(_, _)
Walk(at, rest) ==
    IF at \notin LinkDirs THEN <<"?">>
    ELSE IF Len(rest) = 1 THEN Append(at, rest[1])
    ELSE Walk(IF Head(rest) = ".."
                THEN SubSeq(at, 1, Len(at) - 1)
                ELSE Append(at, Head(rest)),
              Tail(rest))

\* `fname.canonicalize()`: Ok exactly when the file exists.
Canonicalize(p) == IF Walk(<<>>, p) \in lk_files THEN Walk(<<>>, p) ELSE <<"?">>

\* `fname.strip_prefix(&base_dir)` is Ok.
UnderBaseDir(p) == Len(p) > 1 /\ p[1] = "src"

\* RenderAdapter::next (process.rs) on an inline link of scheme hyperref: a
\* path that does not resolve leaves the link as it is; for one that does,
\* strip_prefix(&base_dir).unwrap() panics when the file is not under the
\* source root; else the link is rewritten and the page registered.
ResolveLink ==
    /\ lk_result = "none"
    /\ lk_result' =
          IF Canonicalize(LinkFname) = <<"?">> THEN "unresolved"
          ELSE IF UnderBaseDir(Canonicalize(LinkFname)) THEN "rewritten"
          ELSE "panic"
    /\ UNCHANGED <<lk_filename, lk_path, lk_files>>
    /\ UNCHANGED <<mainVars, raVars, fmVars, slugVars, tocVars, dagVars>>

\* The documents src/index.md and src/sub/p.md, a link path of up to MaxUp
\* directory steps and the name a, and the files named a.md that exist.
\* Url::parse removes the dot segments of a path that starts with "/".
InitLink ==
    /\ MainIdle
    /\ RAStart
    /\ FMIdle
    /\ SlugIdle
    /\ TocNew(<<>>)
    /\ DagNew
    /\ \E filename \in {<<"src", "index.md">>, <<"src", "sub", "p.md">>},
          abs \in BOOLEAN,
          up \in UNION {[1..n -> {"..", "sub"}] : n \in 0..MaxUp},
          files \in SUBSET {<<"a.md">>, <<"src", "a.md">>,
                            <<"src", "sub", "a.md">>, <<"out", "a.md">>} :
          /\ abs => \A k \in 1..Len(up) : up[k] # ".."
          /\ LinkNew(filename, [abs |-> abs, parts |-> up \o <<"a">>], files)

SpecLink == InitLink /\ [][ResolveLink]_vars

\* ------------------------------------------------------- dependency.rs
\* Node ids count from 0 (the root); dg_nodes[id + 1] is node id.
\* An add_dependency whose edge leads to the node it starts from.
AddDependencyToItself(from) ==
    /\ dg_pc = "build"
    /\ Len(dg_nodes) < MaxNodes
    /\ dg_nodes' = Append(dg_nodes, "dep")
    /\ dg_edges' =
          IF from \in DOMAIN dg_edges
            THEN [dg_edges EXCEPT ![from] = Append(@, from)]
            ELSE (from :> <<from>>) @@ dg_edges
    /\ UNCHANGED <<dg_node_stack, dg_new_stack, dg_pc, dg_calls>>
    /\ UNCHANGED <<mainVars, raVars, fmVars, slugVars, tocVars, linkVars>>

\* DependencyDAG::add_dependency: new_id is the number of nodes so far, the
\* node is pushed and new_id appended to the edges of `from`.
AddDependency(from) ==
    /\ dg_pc = "build"
    /\ Len(dg_nodes) < MaxNodes
    /\ dg_nodes' = Append(dg_nodes, "dep")
    /\ dg_edges' =
          IF from \in DOMAIN dg_edges
            THEN [dg_edges EXCEPT ![from] = Append(@, Len(dg_nodes))]
            ELSE (from :> <<Len(dg_nodes)>>) @@ dg_edges
    /\ UNCHANGED <<dg_node_stack, dg_new_stack, dg_pc, dg_calls>>
    /\ UNCHANGED <<mainVars, raVars, fmVars, slugVars, tocVars, linkVars>>

\* destructive_walk up to the loop: node_stack is empty and new_stack holds
\* the root.
StartWalk ==
    /\ dg_pc = "build"
    /\ dg_pc' = "walk"
    /\ dg_node_stack' = <<>>
    /\ dg_new_stack' = <<0>>
    /\ UNCHANGED <<dg_nodes, dg_edges, dg_calls>>
    /\ UNCHANGED <<mainVars, raVars, fmVars, slugVars, tocVars, linkVars>>

\* A for loop over new_stack that did not take the nodes out of it first.
RECURSIVE RoundKeeping(_, _, _)
RoundKeeping(cur, edges, new) ==
    IF cur = <<>> THEN [edges |-> edges, new_stack |-> dg_new_stack \o new]
    ELSE IF Head(cur) \in DOMAIN edges
      THEN RoundKeeping(Tail(cur),
                 [n \in DOMAIN edges \ {Head(cur)} |-> edges[n]],
                 new \o SelectSeq(edges[Head(cur)],
                                  LAMBDA d : ~Contains(dg_node_stack, d)))
      ELSE RoundKeeping(Tail(cur), edges, new)

\* The for loop of destructive_walk over the nodes taken out of new_stack:
\* the edges of each are removed and its deps that are not in node_stack are
\* pushed on the (emptied) new_stack.
RECURSIVE Round(_, _, _)
Round(cur, edges, new) ==
    IF cur = <<>> THEN [edges |-> edges, new_stack |-> new]
    ELSE IF Head(cur) \in DOMAIN edges
      THEN Round(Tail(cur),
                 [n \in DOMAIN edges \ {Head(cur)} |-> edges[n]],
                 new \o SelectSeq(edges[Head(cur)],
                                  LAMBDA d : ~Contains(dg_node_stack, d)))
      ELSE Round(Tail(cur), edges, new)

\* destructive_walk from the test of the while loop: one pass of the loop
\* body while node_stack is shorter than nodes; after the loop every id of
\* node_stack is taken out of nodes and passed to the callback, and taking a
\* node a second time panics.
WalkStep ==
    /\ dg_pc = "walk"
    /\ IF Len(dg_node_stack) < Len(dg_nodes)
         THEN LET r == Round(dg_new_stack, dg_edges, <<>>)
              IN  /\ dg_edges' = r.edges
                  /\ dg_new_stack' = r.new_stack
                  /\ dg_node_stack' = dg_node_stack \o r.new_stack
                  /\ UNCHANGED <<dg_pc, dg_calls>>
         ELSE LET twice == {k \in 1..Len(dg_node_stack) :
                               \E h \in 1..(k - 1) :
                                   dg_node_stack[h] = dg_node_stack[k]}
              IN  /\ dg_calls' =
                        IF twice = {} THEN dg_node_stack
                        ELSE SubSeq(dg_node_stack, 1,
                                    (CHOOSE k \in twice :
                                        \A h \in twice : k <= h) - 1)
                  /\ dg_pc' = IF twice = {} THEN "done" ELSE "panic"
                  /\ UNCHANGED <<dg_edges, dg_new_stack, dg_node_stack>>
    /\ UNCHANGED dg_nodes
    /\ UNCHANGED <<mainVars, raVars, fmVars, slugVars, tocVars, linkVars>>

NextDag ==
    \/ \E from \in 0..(Len(dg_nodes) - 1) : AddDependency(from)
    \/ StartWalk
    \/ WalkStep

InitDag == MainIdle /\ RAStart /\ FMIdle /\ SlugIdle /\ Idle

SpecDag == InitDag /\ [][NextDag]_vars

\* destructive_walk runs on: the call is made and every step of it that can
\* be taken is taken.
SpecDagLive == SpecDag /\ WF_vars(StartWalk) /\ WF_vars(WalkStep)

\* ---------------------------------------------------------------- claims
\* The futures of input that exist and have not completed.
Live(input) == futs[<<input, "start">>] + futs[<<input, "mid">>]

\* C1: within one run the render logic of an input identity is executed at
\* most once, however many pages discover it: no input gets a second future.
C1_AtMostOncePerRun == \A i \in Items : started[i] <= 1

\* C2: render_all returns Ok only at a quiescent point: the queue is empty
\* and no future is in flight.
C2_OkOnlyWhenQuiescent ==
    result = "Ok" => render_stack = <<>> /\ FutsLen(futs) = 0

C4_PendingUntilCompletion ==
    phase # "done" =>
        \A i \in Items : Live(i) > 0 => Contains(render_stack, i)

\* C5: once a future has failed, the result of the run is that first error:
\* the run has ended with Err, the error is the one of the first failure, and
\* it is never Ok or another future's error afterwards.
C5_FirstErrorIsResult ==
    failedFirst # NoInput =>
        /\ phase = "done"
        /\ result = "Err"
        /\ errBy = failedFirst

\* C5 witness: a future failed while other futures were in flight.
C5_Witness ==
    /\ failedFirst # NoInput
    /\ result = "Err"
    /\ FutsLen(futs) > 0

\* C6: after a failure the futures already started are not cancelled: when
\* the scheduler stops, each of them has run to its own completion.
C6_SiblingsRunToCompletion ==
    phase = "done" /\ failedFirst # NoInput => FutsLen(futs) = 0

\* C7: the discovery of an input that is already pending (queued or in
\* flight) or already finished is a no-op: a render step that discovers
\* inputs leaves the finished set as it is and neither adds nor removes a
\* queue entry for such an input.
C7_RediscoveryIsNoOp ==
    [][\A w \in Items :
          futs'[<<w, "mid">>] = futs[<<w, "mid">>] + 1 =>
              /\ finished' = finished
              /\ \A j \in Items :
                    Contains(render_stack, j) \/ Live(j) > 0 \/ j \in finished =>
                        Count(render_stack', j) = Count(render_stack, j)]_vars

\* C8: every future that returned Ok has its input in the finished set,
\* whichever way it returned (missing source, Keep, fresh output).
C8_OkWorkersAreFinished == okDone \subseteq finished

\* C9: two distinct inputs never write the same output file.
C9_DistinctItemsDistinctPaths ==
    \A a, b \in written : a[2] = b[2] => a[1] = b[1]

\* C10: a second run without force over unchanged sources, after a
\* successful first run, writes no file.
C10_SecondRunWritesNothing ==
    run = "second" /\ prev = "Ok" /\ ~force /\ srcTime = 0 => written = {}

\* A step in which a worker of `input` returns Ok.
CompletesOk(input) ==
    /\ futs'[<<input, "start">>] + futs'[<<input, "mid">>] = Live(input) - 1
    /\ failedFirst' = failedFirst

\* The source of an item is there: the markdown file of a page, the chunk of
\* a style; an image or a font has its URL only.
SourceExists(input) ==
    CASE input.kind \in PageKinds -> ~SourceMissing(input)
      [] input.kind = "Style" -> ~ChunkMissing(input)
      [] OTHER -> TRUE

\* The step writes the output file of `input`.
WritesOutput(input) ==
    /\ writes' = writes + 1
    /\ OutPath(input) \in DOMAIN out'
    /\ out'[OutPath(input)] = now
    /\ <<input, OutPath(input)>> \in written'

\* C11: with force every freshness test is off: a worker of a page, style,
\* image or font whose source is there and that returns Ok has written its
\* output, whether or not an up-to-date output was there; Keep is the one
\* exception.
C11_ForceRewritesAll ==
    [][force =>
         \A i \in Items :
             CompletesOk(i) /\ SourceExists(i) /\ i # Keep => WritesOutput(i)]_vars

\* C11 witness: a forced second run over unchanged sources has rewritten a
\* page, a style, an image and a font whose outputs were all up to date.
C11_Witness ==
    /\ run = "second"
    /\ force
    /\ \A i \in {Index, Style(GlobalStyle), Image(ImageUrl), Font(FontUrl)} :
           /\ OutPath(i) \in DOMAIN out0
           /\ out0[OutPath(i)] > srcTime
           /\ <<i, OutPath(i)>> \in written
           /\ i \in okDone

\* C12: Keep never produces an output file, with or without force and
\* whatever the output tree holds: no file is ever created by a worker of
\* Keep.
C12_KeepWritesNothing == \A w \in written : w[1] # Keep

\* C12 witness: in a forced second run Keep went through the whole page
\* pipeline and returned Ok, after a first run in which its output was absent.
C12_Witness ==
    /\ run = "second"
    /\ force
    /\ Keep \in finished
    /\ Keep \in okDone
    /\ OutPath(Keep) \notin DOMAIN out0

\* What a document refers to: its images, the pages its links resolve to,
\* and the style chunks of its categories that exist.
RefsOfDoc(doc) ==
    {Image(UrlParse(doc[k].url)) :
        k \in {j \in 1..Len(doc) : doc[j].tag = "Image"}}
        \cup {Page(doc[k].url) :
                 k \in {j \in 1..Len(doc) :
                           doc[j].tag = "Link" /\ doc[j].url \in site.exists}}
        \cup {Style(n) : n \in StylesOf(doc) \cap DOMAIN site.chunks}

\* A step in which a worker of `input` gets past the parse of its source.
Parses(input) ==
    /\ futs'[<<input, "start">>] = futs[<<input, "start">>] - 1
    /\ futs'[<<input, "mid">>] = futs[<<input, "mid">>] + 1

\* C13: Keep runs the whole page pipeline: when the source of Keep, as of
\* any page, has been parsed, every image, page and style it refers to is
\* finished or queued (once), and nothing has been written.
C13_KeepDiscoversAsPage ==
    [][\A i \in {Keep, Index} \cup {Page(p) : p \in Stems} :
         Parses(i) =>
             /\ \A r \in RefsOfDoc(site.docs[Filename(i)]) :
                    r \in finished \/ Count(render_stack', r) = 1
             /\ i = Keep => out' = out]_vars

\* C13 witness: Keep has parsed a source with a link and an image while the
\* index refers to nothing: the page, the image and the style are queued.
C13_Witness ==
    /\ futs[<<Keep, "mid">>] > 0
    /\ site.docs[Filename(Index)] = <<>>
    /\ site.docs[Filename(Keep)] = <<Lnk("a"), ImgRaw>>
    /\ \A r \in {Page("a"), Image(ImageUrl), Style(GlobalStyle)} :
           Contains(render_stack, r) /\ started[r] = 0

\* A step in which a worker of `input` returns Ok from its last part.
FinishesOk(input) ==
    /\ CompletesOk(input)
    /\ futs'[<<input, "mid">>] = futs[<<input, "mid">>] - 1

StartStep(input) ==
    /\ futs'[<<input, "start">>] = futs[<<input, "start">>] - 1
    /\ run' = run

\* The step is a skip of `input`: its worker returns Ok at once, marked
\* finished, without a request and without touching the output tree.
Skips(input) ==
    /\ CompletesOk(input)
    /\ input \in finished'
    /\ fetched' = fetched
    /\ out' = out
    /\ writes' = writes

\* C15: render_style skips a style whose chunk is there exactly when force is
\* off, the output exists and the output is strictly newer than the chunk;
\* in every other case, equal modification times included, the style is
\* rebuilt: its worker goes on (or fails on a fetch) and writes when it ends.
C15_StyleSkippedIffStrictlyNewer ==
    [][\A i \in {Style(GlobalStyle)} :
         /\ StartStep(i) /\ ~ChunkMissing(i) =>
               IF /\ ~force
                  /\ OutPath(i) \in DOMAIN out
                  /\ out[OutPath(i)] > srcTime
                 THEN Skips(i)
                 ELSE Parses(i) \/ errWhy' = "fetch"
         /\ FinishesOk(i) => WritesOutput(i)]_vars

\* C15 witness: in a second run without force the style was rebuilt because
\* its output and its chunk had the same modification time.
C15_Witness ==
    /\ run = "second"
    /\ ~force
    /\ OutPath(Style(GlobalStyle)) \in DOMAIN out0
    /\ out0[OutPath(Style(GlobalStyle))] = srcTime
    /\ <<Style(GlobalStyle), OutPath(Style(GlobalStyle))>> \in written

\* C16: for images and fonts freshness is existence alone: without force
\* an item whose output exists is skipped (no request, no write, marked
\* finished) whatever the modification times; an item whose output is absent
\* (or any item under force) is requested from the network.
C16_AssetFreshByExistence ==
    [][\A i \in {Image(ImageUrl), Font(FontUrl)} :
         StartStep(i) =>
             IF ~force /\ OutPath(i) \in DOMAIN out
               THEN Skips(i)
               ELSE i \in fetched' /\ out' = out /\ finished' = finished]_vars

\* C16 witness: in a second run without force, after the sources have
\* changed, the image and the font were skipped since their outputs exist,
\* older than the sources though they are.
C16_Witness ==
    /\ run = "second"
    /\ ~force
    /\ \A i \in {Image(ImageUrl), Font(FontUrl)} :
           /\ OutPath(i) \in DOMAIN out0
           /\ out0[OutPath(i)] < srcTime
           /\ i \in okDone
           /\ i \in finished
           /\ i \notin fetched
           /\ out[OutPath(i)] = out0[OutPath(i)]

\* C17: the render of an Index, Keep or Page item whose source file is not
\* there is a skip and no error: its worker returns Ok at once, no file is
\* written and nothing is queued.
C17_MissingSourceIsSkip ==
    [][\A i \in {Keep, Index} \cup {Page(p) : p \in Stems} :
         StartStep(i) /\ Filename(i) \notin site.exists =>
             /\ CompletesOk(i)
             /\ out' = out
             /\ writes' = writes
             /\ render_stack' = render_stack]_vars

\* C17 witness: a run has ended Ok although the source of Keep is missing;
\* the worker of Keep returned Ok and the index page was written.
C17_Witness ==
    /\ phase = "done"
    /\ result = "Ok"
    /\ Filename(Keep) \notin site.exists
    /\ Keep \in okDone
    /\ OutPath(Keep) \notin DOMAIN out
    /\ <<Index, OutPath(Index)>> \in written

\* C18: the render of a Style item whose chunk file is not there is a
\* silent no-op: its worker returns Ok at once, marked finished, no file is
\* written, no request is sent and no font is queued.
C18_MissingChunkIsNoOp ==
    [][\A i \in {Style(GlobalStyle)} :
         StartStep(i) /\ i.key \notin DOMAIN site.chunks =>
             Skips(i) /\ render_stack' = render_stack]_vars

\* C18 witness: the chunk went away after the style had been scheduled; the
\* style worker returned Ok and the style is finished, with no css output
\* and no font.
C18_Witness ==
    /\ GlobalStyle \notin DOMAIN site.chunks
    /\ Style(GlobalStyle) \in okDone
    /\ Style(GlobalStyle) \in finished
    /\ OutPath(Style(GlobalStyle)) \notin DOMAIN out
    /\ started[Font(FontUrl)] = 0
    /\ ~Contains(render_stack, Font(FontUrl))

\* C19: a failed network fetch in the image, font or style pipeline is a
\* hard error for the item: the step in which the fetch fails writes no
\* file, and the run ends with an error.
C19_FetchFailureWritesNothing ==
    [][errWhy' = "fetch" /\ errWhy # "fetch" =>
         /\ out' = out
         /\ writes' = writes
         /\ result' = "Err"]_vars

\* C20: an absent output directory is never a cause of failure: every path
\* that writes a file creates the missing parent directory first, so no
\* render fails at File::create for want of the directory.
C20_AbsentDirNeverFails == errWhy # "create"

\* The URL under which the site serves a file of the output tree.
UrlOfOutput(p) == "/" \o RelString(p)

\* The pages: the items that parse a markdown source.
PageItems == {Index, Keep} \cup {Page(p) : p \in Stems}

\* C21: for an inline image the page carries the reference
\* /images/{key}.webp, key being the hash of the normalized URL; the Image
\* item of that URL is pending, dispatched or finished; and every file a
\* worker of that item writes is the file the reference names.
C21_ImageRefIsOutput ==
    \A i \in PageItems : \A k \in 1..Len(emitted[i]) :
        LET ev == site.docs[Filename(i)][k]
            item == Image(UrlParse(ev.url))
        IN  ev.tag = "Image" =>
              /\ emitted[i][k].url =
                     "/images/" \o Sha256Hex(UrlParse(ev.url)) \o ".webp"
              /\ \/ Contains(render_stack, item)
                 \/ started[item] > 0
                 \/ item \in finished
              /\ \A w \in written :
                     w[1] = item => UrlOfOutput(w[2]) = emitted[i][k].url

\* C21 witness: the keep file spells the image URL in upper case; its
\* reference was rewritten and the image has been written to the file the
\* reference names.
C21_Witness ==
    /\ site.docs[KeepStem] = <<Lnk("a"), ImgRaw>>
    /\ Len(emitted[Keep]) = 2
    /\ \E w \in written :
           /\ w[1] = Image(ImageUrl)
           /\ UrlOfOutput(w[2]) = emitted[Keep][2].url
    /\ Image(ImageUrl) \in finished

\* C22: a page with hyperref links to an existing sibling b.md enqueues
\* exactly one Page item for it, however often the link occurs, and every
\* occurrence is rewritten to "/" + b's path with extension html, which is
\* where the output of that Page item is written.
C22_LinkEnqueuesOnceAndPointsAtOutput ==
    [][\A i \in PageItems :
         /\ Parses(i) =>
               \A k \in 1..Len(site.docs[Filename(i)]) :
                   LET ev == site.docs[Filename(i)][k]
                       b == Page(ev.url)
                   IN  ev.tag = "Link" /\ ev.url \in site.exists =>
                         /\ b \in finished \/ Count(render_stack', b) = 1
                         /\ Count(render_stack', b) <= Count(render_stack, b) + 1
                         /\ emitted'[i][k].url = UrlOfOutput(OutPath(b))
         /\ \A k \in 1..Len(emitted'[i]) :
               LET ev == site.docs[Filename(i)][k]
               IN  ev.tag = "Link" /\ ev.url \in site.exists =>
                     \A w \in written' :
                         w[1] = Page(ev.url) =>
                             UrlOfOutput(w[2]) = emitted'[i][k].url]_vars

\* C22 witness: the index links twice to a.md; both links were rewritten to
\* /a.html, one future was created for the page and it wrote that file.
C22_Witness ==
    /\ site.docs[IndexStem] = <<Lnk("a"), Lnk("a")>>
    /\ site.docs[KeepStem] = <<>>
    /\ emitted[Index] = <<Lnk("/a.html"), Lnk("/a.html")>>
    /\ started[Page("a")] = 1
    /\ \E w \in written : w[1] = Page("a") /\ UrlOfOutput(w[2]) = "/a.html"

\* C23: a hyperref link whose target does not resolve to an existing file
\* is no hard error: the parse of the page goes through, the link is handed
\* on with its original URL and no Page item is queued for it.
C23_UnresolvedLinkIsSoft ==
    [][\A i \in PageItems :
         /\ StartStep(i) /\ Filename(i) \in site.exists => Parses(i)
         /\ Parses(i) =>
               \A k \in 1..Len(site.docs[Filename(i)]) :
                   LET ev == site.docs[Filename(i)][k]
                   IN  ev.tag = "Link" /\ ev.url \notin site.exists =>
                         /\ emitted'[i][k] = ev
                         /\ Count(render_stack', Page(ev.url)) =
                                Count(render_stack, Page(ev.url))]_vars

\* C23 witness: the index links to a.md, which does not exist; the run ended
\* Ok, the index page was written with the link as it was and no page item
\* was created for a.md.
C23_Witness ==
    /\ phase = "done"
    /\ result = "Ok"
    /\ "a" \notin site.exists
    /\ Len(emitted[Index]) > 0
    /\ emitted[Index][1] = Lnk("a")
    /\ <<Index, OutPath(Index)>> \in written
    /\ started[Page("a")] = 0

\* C25: a style chunk whose directive leads to the same font URL twice
\* enqueues exactly one Font item for that URL, and both references are
\* rewritten to the same local /fonts/ path, the one the font is written to.
C25_FontEnqueuedOnce ==
    [][\A i \in {Style(GlobalStyle)} :
         Parses(i) =>
             LET refs == site.chunks[i.key]
             IN  \A k \in 1..Len(refs) :
                   LET f == Font(refs[k])
                   IN  /\ f \in finished \/ Count(render_stack', f) = 1
                       /\ Count(render_stack', f) <= Count(render_stack, f) + 1
                       /\ emitted'[i][k] = UrlOfOutput(OutPath(f))
                       /\ \A j \in 1..Len(refs) :
                              refs[j] = refs[k] =>
                                  emitted'[i][j] = emitted'[i][k]]_vars

\* C25 witness: the stylesheet named the font twice; both references became
\* the same /fonts/ path, one future was created for the font and it wrote
\* the file under that path.
C25_Witness ==
    /\ Len(emitted[Style(GlobalStyle)]) = 2
    /\ emitted[Style(GlobalStyle)][1] = emitted[Style(GlobalStyle)][2]
    /\ started[Font(FontUrl)] = 1
    /\ Font(FontUrl) \in finished
    /\ \E w \in written :
           /\ w[1] = Font(FontUrl)
           /\ UrlOfOutput(w[2]) = emitted[Style(GlobalStyle)][1]

\* C24: within one document the first heading whose slugified text is s
\* gets the slug s, and its k-th repetition gets s followed by the decimal
\* number k.
C24_RepeatedSlugIsNumbered ==
    \A j \in 1..Len(toc) :
        LET sl == FixedUp(sl_titles[j])
            k == Cardinality({h \in 1..(j - 1) : FixedUp(sl_titles[h]) = sl})
        IN  toc[j] = IF k = 0 THEN sl ELSE sl \o Decimal(k)

\* C24 witness: headings "Intro", "Intro!" and "Intro" got the slugs intro,
\* intro1 and intro2.
C24_Witness ==
    /\ sl_titles = <<Intro, Intro \o <<"!">>, Intro>>
    /\ toc = << <<"i", "n", "t", "r", "o">>,
                <<"i", "n", "t", "r", "o", "1">>,
                <<"i", "n", "t", "r", "o", "2">> >>

\* The event at position k has been returned by next().
Emitted(k) == \E j \in 1..Len(fm_emitted) : fm_emitted[j] = k

\* C26: the frontmatter block is removed from the emitted stream: no event
\* from the rule that opens it through the marker that closes it (a second
\* rule, or the end of the first heading) is emitted.
C26_FrontmatterBlockNotEmitted ==
    fm_open # 0 =>
        \A k \in fm_open..(fm_pos - 1) :
            (fm_close = 0 \/ k <= fm_close) => ~Emitted(k)

\* C27: extraction applies to a block at the top of the document only: a
\* rule that comes after an event has been emitted does not start the
\* buffering; it is emitted, and so are the events that follow it.
C27_RuleAfterContentIsEmitted ==
    \A k \in 1..(fm_pos - 1) :
        /\ fm_doc[k].tag = "Rule"
        /\ \E j \in 1..(k - 1) : Emitted(j)
        => \A m \in k..(fm_pos - 1) : Emitted(m)

\* C28: a frontmatter parse failure is soft: the frontmatter is None, the
\* extraction is over, and every event after the block is emitted.
C28_ParseFailureIsSoft ==
    (\E k \in 1..Len(fm_parses) : fm_parses[k] = ParseErr) =>
        /\ frontmatter = None
        /\ frontmatter_state = "Done"
        /\ \A m \in (fm_close + 1)..(fm_pos - 1) : Emitted(m)

\* C28 witness: the block held a date that does not parse; the stream has
\* ended and the events after the block have been emitted.
C28_Witness ==
    /\ fm_parses = <<ParseErr>>
    /\ fm_ended
    /\ fm_close < Len(fm_doc)
    /\ \A m \in (fm_close + 1)..Len(fm_doc) : Emitted(m)
    /\ \E k \in fm_open..fm_close : fm_doc[k] = BadDateLine

\* C29: frontmatter is parsed at most once per document: the state moves
\* from Ready to Parsing and from Parsing to Done only, and once it is Done
\* no rule or heading changes it or the frontmatter.
C29_ParsedAtMostOnce ==
    [][/\ frontmatter_state' # frontmatter_state =>
             \/ frontmatter_state = "Ready" /\ frontmatter_state' = "Parsing"
             \/ frontmatter_state = "Parsing" /\ frontmatter_state' = "Done"
       /\ frontmatter_state = "Done" =>
             /\ frontmatter_state' = "Done"
             /\ frontmatter' = frontmatter
       /\ Len(fm_parses') <= 1]_vars

\* C29 witness: the frontmatter has been parsed, and a rule that came after
\* the block has gone by without a second parse.
C29_Witness ==
    /\ frontmatter_state = "Done"
    /\ Len(fm_parses) = 1
    /\ frontmatter = fm_parses[1]
    /\ frontmatter.kind = "Some"
    /\ \E k \in (fm_close + 1)..(fm_pos - 1) : fm_doc[k].tag = "Rule"

\* The reference graph of the site has a cycle through two pages: index.md
\* links to a.md, a.md links back to index.md, and no other document links
\* to either.
CyclicSite ==
    /\ {IndexStem, "a"} \subseteq site.exists
    /\ Contains(site.docs[IndexStem], Lnk("a"))
    /\ ~Contains(site.docs[IndexStem], Lnk(IndexStem))
    /\ Contains(site.docs["a"], Lnk(IndexStem))
    /\ site.docs[KeepStem] = <<>>

\* C30: on a cyclic reference graph identity deduplication bounds the
\* number of dispatches of a run: no more page futures are created than
\* there are page identities that got one.
C30_CyclicDispatchesBounded ==
    CyclicSite =>
        SumOver(started, PageItems)
            <= Cardinality({i \in PageItems : started[i] > 0})

\* The output of page `input` was fresh in this run: its worker returned Ok
\* from the end of Processor::render, the output was there when the run
\* started and the worker left it as it was.
FreshPage(input) ==
    /\ input \in PageItems \ {Keep}
    /\ ~SourceMissing(input)
    /\ input \in finished
    /\ OutPath(input) \in DOMAIN out0
    /\ \A w \in written : w[1] # input

\* C31: a page whose output is fresh still runs the transform and enqueues
\* what it references, so in a run without force that has returned Ok every
\* page, image and style a fresh page refers to has been dispatched.
C31_FreshPageRefsDispatched ==
    phase = "done" /\ result = "Ok" /\ ~force =>
        \A p \in PageItems :
            FreshPage(p) =>
                \A r \in RefsOfDoc(site.docs[Filename(p)]) : started[r] > 0

\* C32: an item whose worker returned an error is never added to the
\* finished set, in any pipeline: the item of the worker that failed is not
\* in the set.
C32_FailedNotFinished == failedFirst # NoInput => failedFirst \notin finished

\* C33: when render_image or render_font fails for an item, no file is left
\* at the item's output path: a path that was free when the run started is
\* still free after the failure.
C33_FailedAssetLeavesNoFile ==
    /\ failedFirst.kind \in {"Image", "Font"}
    /\ OutPath(failedFirst) \notin DOMAIN out0
    => OutPath(failedFirst) \notin DOMAIN out

\* C34: within one document no two headings receive the same anchor id /
\* slug, whatever the heading texts are.
C34_SlugsAreDistinct ==
    \A j, k \in 1..Len(toc) : j # k => toc[j] # toc[k]

\* How many lists are open after the first k tags of the output.
Depth(tags, k) ==
    Cardinality({j \in 1..k : tags[j] = "<ol>"})
        - Cardinality({j \in 1..k : tags[j] = "</ol>"})

\* C35: for every non-empty sequence of heading levels the toc of render_toc
\* closes as many lists as it opens and never closes a list that is not
\* open.
C35_TocWellNested ==
    tc_done /\ tc_levels # <<>> =>
        /\ Depth(tc_out, Len(tc_out)) = 0
        /\ \A k \in 1..Len(tc_out) : Depth(tc_out, k) >= 0

\* The Start event that the End event at position k closes: the last Start
\* before it (blocks do not nest).
StartOf(k) ==
    CHOOSE j \in 1..(k - 1) :
        /\ fm_doc[j].tag \in {"StartHeading", "StartParagraph"}
        /\ \A m \in (j + 1)..(k - 1) :
              fm_doc[m].tag \notin {"StartHeading", "StartParagraph"}

\* C36: the emitted stream is properly nested: every emitted End event has
\* its Start event emitted before it.
C36_EmittedStreamNested ==
    \A k \in 1..(fm_pos - 1) :
        Emitted(k) /\ fm_doc[k].tag \in {"EndHeading", "EndParagraph"} =>
            Emitted(StartOf(k))

\* C37: a hyperref link whose target resolves to an existing file outside
\* the source root does not abort the page render: it never causes a panic.
C37_LinkOutsideRootNoPanic == lk_result # "panic"

\* C38: after any sequence of add_dependency calls on a new graph the graph
\* is acyclic: every edge leads from an existing node to a node with a
\* strictly larger id, and the ids handed out are the node counts 1, 2, ..
\* in turn, each the target of exactly one edge.
C38_EdgesLeadToLargerIds ==
    dg_pc = "build" =>
        /\ \A from \in DOMAIN dg_edges :
              /\ from \in 0..(Len(dg_nodes) - 1)
              /\ \A k \in 1..Len(dg_edges[from]) :
                    /\ from < dg_edges[from][k]
                    /\ dg_edges[from][k] < Len(dg_nodes)
        /\ \A id \in 1..(Len(dg_nodes) - 1) :
              Cardinality({e \in {<<from, k>> : from \in DOMAIN dg_edges,
                                                k \in 1..MaxNodes} :
                              /\ e[2] <= Len(dg_edges[e[1]])
                              /\ dg_edges[e[1]][e[2]] = id}) = 1

\* C38 witness: a graph of four nodes in which the root has two dependencies
\* and one of them has a dependency of its own.
C38_Witness ==
    /\ dg_pc = "build"
    /\ dg_nodes = <<"root", "dep", "dep", "dep">>
    /\ dg_edges = (0 :> <<1, 2>>) @@ (1 :> <<3>>)

C40_WalkTerminatesHavingPassedAll ==
    <>(/\ dg_pc = "done"
       /\ \A id \in 0..(Len(dg_nodes) - 1) :
             \E k \in 1..Len(dg_calls) : dg_calls[k] = id)

====
